---- MODULE Spec2Model ----
(***************************************************************************)
(* Terminal snake game (src/snake.py): the controller loop of main, the    *)
(* game-over prompt, food placement, key mapping and head computation.     *)
(*                                                                         *)
(* Cells are <<row, column>> pairs of the play window `win`; the snake is  *)
(* a sequence of cells, head first.  A direction is the curses key code of *)
(* the arrow key that selects it, as in the source.                        *)
(***************************************************************************)
EXTENDS Integers, Sequences, FiniteSets, TLC

(* ---- program constants ------------------------------------------------ *)

\* curses key codes imported at snake.py:13, and the character codes of
\* ord('q') / ord('r'); -1 is what getch returns when the poll times out.
KEY_DOWN  == 258
KEY_UP    == 259
KEY_LEFT  == 260
KEY_RIGHT == 261
ord_q     == 113
ord_r     == 114
NoKey     == -1

\* smallest terminal main accepts (snake.py:24)
MinRows == 10
MinCols == 30

(* ---- bounds of the model ---------------------------------------------- *)

\* most rows of a terminal tried; sizes start one below the minimum
MaxRows == 10
\* ticks of the play loop explored in one play session
MaxTicks == 4
\* food is drawn from the corners of the interior and from the cells at
\* most MaxRand rows and columns away from the head of the new snake
MaxRand == 1

ScreenRows == (MinRows - 1) .. MaxRows
ScreenCols == (MinCols - 1) .. MinCols

\* the values of getch the code tells apart; r has no case in the play
\* loop, the arrows and -1 have none in game_over
Keys == {NoKey, KEY_DOWN, KEY_UP, KEY_LEFT, KEY_RIGHT, ord_q, ord_r}

\* value of a local that has not been assigned (or whose call has returned)
None == <<>>
NoScore == 0 - 1

VARIABLES
  sh, sw,        \* stdscr.getmaxyx()
  st,            \* where the controller is
  snake,         \* list of cells, head first
  direction,     \* key code of the current direction
  food,          \* the food cell
  score,
  next_key,      \* key read by win.getch() in the current iteration
  new_head,      \* new_head of the current iteration
  key,           \* key read by game_over
  final_score,   \* the score game_over was called with
  win,           \* what the play window shows: <<cell, glyph>> pairs
  idle,          \* the keyboard sends no arrow key and no q any more
  ticks          \* iterations of the play loop the model has taken in
                 \* this session

vars == <<sh, sw, st, snake, direction, food, score, next_key, new_head,
          key, final_score, win, idle, ticks>>

(* ---- helpers ---------------------------------------------------------- *)

\* win = newwin(sh-2, sw-2, 1, 1); h, w = win.getmaxyx()
h == sh - 2
w == sw - 2

snake_x == w \div 4
snake_y == h \div 2

\* Python `cell in snake`
InList(c, s) == \E i \in 1..Len(s) : s[i] = c

\* the three-cell snake built at start and at restart
InitialSnake == << <<snake_y, snake_x>>,
                   <<snake_y, snake_x - 1>>,
                   <<snake_y, snake_x - 2>> >>

\* the cells [randint(1, h-2), randint(1, w-2)] of line 129 that the
\* model draws
FoodSamples(hh, ww) ==
  {c \in (1 .. hh - 2) \X (1 .. ww - 2) :
     \/ c[1] \in {1, hh - 2} /\ c[2] \in {1, ww - 2}
     \/ /\ c[1] - hh \div 2 \in -MaxRand .. MaxRand
        /\ c[2] - ww \div 4 \in -MaxRand .. MaxRand}

\* create_food without the `food not in snake` test
create_food_Unchecked(hh, ww, s) == FoodSamples(hh, ww)

\* create_food: the cells the sampling loop can return
create_food(hh, ww, s) == {f \in FoodSamples(hh, ww) : ~InList(f, s)}

\* process_key_input without the tests on current_direction
process_key_input_Reversing(k, current_direction) ==
  IF k \in {KEY_DOWN, KEY_UP, KEY_LEFT, KEY_RIGHT} THEN k
  ELSE current_direction

\* process_key_input falling back to KEY_RIGHT instead of current_direction
process_key_input_Default(k, current_direction) ==
  IF k = KEY_DOWN /\ current_direction # KEY_UP THEN KEY_DOWN
  ELSE IF k = KEY_UP /\ current_direction # KEY_DOWN THEN KEY_UP
  ELSE IF k = KEY_LEFT /\ current_direction # KEY_RIGHT THEN KEY_LEFT
  ELSE KEY_RIGHT

process_key_input(k, current_direction) ==
  IF k = KEY_DOWN /\ current_direction # KEY_UP THEN KEY_DOWN
  ELSE IF k = KEY_UP /\ current_direction # KEY_DOWN THEN KEY_UP
  ELSE IF k = KEY_LEFT /\ current_direction # KEY_RIGHT THEN KEY_LEFT
  ELSE IF k = KEY_RIGHT /\ current_direction # KEY_LEFT THEN KEY_RIGHT
  ELSE current_direction

\* calculate_new_head with the row steps of KEY_DOWN and KEY_UP exchanged
calculate_new_head_Flipped(s, d) ==
  IF d = KEY_DOWN THEN <<s[1][1] - 1, s[1][2]>>
  ELSE IF d = KEY_UP THEN <<s[1][1] + 1, s[1][2]>>
  ELSE IF d = KEY_LEFT THEN <<s[1][1], s[1][2] - 1>>
  ELSE IF d = KEY_RIGHT THEN <<s[1][1], s[1][2] + 1>>
  ELSE s[1]

calculate_new_head(s, d) ==
  IF d = KEY_DOWN THEN <<s[1][1] + 1, s[1][2]>>
  ELSE IF d = KEY_UP THEN <<s[1][1] - 1, s[1][2]>>
  ELSE IF d = KEY_LEFT THEN <<s[1][1], s[1][2] - 1>>
  ELSE IF d = KEY_RIGHT THEN <<s[1][1], s[1][2] + 1>>
  ELSE s[1]

\* the direction the loop uses after reading key k (lines 76-83)
NextDirection(k, d) == IF k = NoKey THEN d ELSE process_key_input(k, d)

\* the collision test without `new_head in snake`
Collision_NoSelf(nh, s, hh, ww) ==
  \/ nh[1] \in {0, hh - 1}
  \/ nh[2] \in {0, ww - 1}

\* the collision test with the last row and column off by one
Collision_OffByOne(nh, s, hh, ww) ==
  \/ nh[1] \in {0, hh}
  \/ nh[2] \in {0, ww}
  \/ InList(nh, s)

\* the collision test made against the snake without its tail
Collision_TailFree(nh, s, hh, ww) ==
  \/ nh[1] \in {0, hh - 1}
  \/ nh[2] \in {0, ww - 1}
  \/ InList(nh, SubSeq(s, 1, Len(s) - 1))

\* the collision test without the test of the row
Collision_ColsOnly(nh, s, hh, ww) ==
  \/ nh[2] \in {0, ww - 1}
  \/ InList(nh, s)

\* the collision test of lines 89-91
Collision(nh, s, hh, ww) ==
  \/ nh[1] \in {0, hh - 1}
  \/ nh[2] \in {0, ww - 1}
  \/ InList(nh, s)

\* snake.append(new_head)
Insert_AtEnd(nh, s) == s \o <<nh>>

\* snake.insert(0, new_head)
Insert(nh, s) == <<nh>> \o s

\* snake.pop(0)
Pop_Front(s) == SubSeq(s, 2, Len(s))

\* snake.pop(): the list without its last cell
Pop(s) == SubSeq(s, 1, Len(s) - 1)

\* the glyphs the play window is written with
ACS_DIAMOND == "diamond"
ACS_CKBOARD == "ckboard"
Blank == " "

\* win.addch(c[0], c[1], ch) on window content wn; a blank cell holds no pair
addch(wn, c, ch) ==
  {p \in wn : p[1] # c} \cup (IF ch = Blank THEN {} ELSE {<<c, ch>>})

\* a window with nothing written to it (newwin, win.clear())
ClearWin == {}

(* ---- initial state ---------------------------------------------------- *)

Init ==
  /\ sh \in ScreenRows
  /\ sw \in ScreenCols
  /\ st = "Start"
  /\ snake = None
  /\ direction = NoKey
  /\ food = None
  /\ score = NoScore
  /\ next_key = NoKey
  /\ new_head = None
  /\ key = NoKey
  /\ final_score = NoScore
  /\ win = ClearWin
  /\ idle = FALSE
  /\ ticks = 0

(* ---- actions ---------------------------------------------------------- *)

\* lines 24-29: the terminal is too small, main returns
TooSmall ==
  /\ st = "Start"
  /\ (sh < MinRows \/ sw < MinCols)
  /\ st' = "TooSmall"
  /\ UNCHANGED <<idle, sh, sw, snake, direction, food, score, next_key, new_head,
                 key, final_score, win, ticks>>

\* setup run unless both dimensions are too small
Setup_WrongTest ==
  /\ st = "Start"
  /\ ~(sh < MinRows /\ sw < MinCols)
  /\ snake' = InitialSnake
  /\ direction' = KEY_RIGHT
  /\ food' \in create_food(h, w, InitialSnake)
  /\ score' = 0
  /\ win' = addch(ClearWin, food', ACS_DIAMOND)
  /\ st' = "Instructions"
  /\ UNCHANGED <<idle, sh, sw, next_key, new_head, key, final_score, ticks>>

\* lines 31-64: window, snake, direction, food, score, then the
\* instructions are shown
Setup ==
  /\ st = "Start"
  /\ ~(sh < MinRows \/ sw < MinCols)
  /\ snake' = InitialSnake
  /\ direction' = KEY_RIGHT
  /\ food' \in create_food(h, w, InitialSnake)
  /\ score' = 0
  /\ win' = addch(ClearWin, food', ACS_DIAMOND)
  /\ st' = "Instructions"
  /\ UNCHANGED <<idle, sh, sw, next_key, new_head, key, final_score, ticks>>

\* show_instructions, line 179: any key starts the game
StartGame ==
  /\ st = "Instructions"
  /\ st' = "Playing"
  /\ UNCHANGED <<idle, sh, sw, snake, direction, food, score, next_key, new_head,
                 key, final_score, win, ticks>>

\* q handled like any other key: the snake moves on
Quit_Moves ==
  LET nh == calculate_new_head(snake, direction)
  IN /\ st = "Playing"
     /\ ticks < MaxTicks
     /\ ~Collision(nh, snake, h, w)
     /\ nh # food
     /\ next_key' = ord_q
     /\ new_head' = nh
     /\ snake' = Pop(Insert(nh, snake))
     /\ ticks' = ticks + 1
     /\ UNCHANGED <<idle, sh, sw, st, direction, food, score, key, final_score,
                    win>>

\* lines 73, 79-80: q is read, the loop breaks
Quit ==
  /\ st = "Playing"
  /\ ticks < MaxTicks
  /\ ~idle
  /\ next_key' = ord_q
  /\ st' = "Terminated"
  /\ ticks' = ticks + 1
  /\ UNCHANGED <<idle, sh, sw, snake, direction, food, score, new_head, key,
                 final_score, win>>

\* lines 73-93: a key other than q is read, the new head collides and
\* game_over is entered
CollideStep(k) ==
  LET d  == NextDirection(k, direction)
      nh == calculate_new_head(snake, d)
  IN /\ st = "Playing"
     /\ k # ord_q
     /\ Collision(nh, snake, h, w)
     /\ next_key' = k
     /\ direction' = d
     /\ new_head' = nh
     /\ final_score' = score
     /\ st' = "GameOver"
     /\ ticks' = ticks + 1
     /\ UNCHANGED <<idle, sh, sw, snake, food, score, key, win>>

\* the step above, within the ticks the model explores
Collide(k) == ticks < MaxTicks /\ ~idle /\ CollideStep(k)

\* lines 73-124, food eaten: the snake grows, food is placed again
EatStep(k) ==
  LET d  == NextDirection(k, direction)
      nh == calculate_new_head(snake, d)
  IN /\ st = "Playing"
     /\ k # ord_q
     /\ ~Collision(nh, snake, h, w)
     /\ nh = food
     /\ next_key' = k
     /\ direction' = d
     /\ new_head' = nh
     /\ snake' = Insert(nh, snake)
     /\ IF create_food(h, w, Insert(nh, snake)) = {}
        THEN \* no sample passes the test of line 130: the loop of
             \* create_food never returns
             /\ st' = "Placing"
             /\ UNCHANGED <<food, score, win>>
        ELSE /\ food' \in create_food(h, w, Insert(nh, snake))
             /\ score' = score + 1
             /\ win' = addch(addch(win, food', ACS_DIAMOND), nh, ACS_CKBOARD)
             /\ st' = st
     /\ ticks' = ticks + 1
     /\ UNCHANGED <<idle, sh, sw, key, final_score>>

\* the step above, within the ticks the model explores
Eat(k) == ticks < MaxTicks /\ ~idle /\ EatStep(k)

\* lines 73-124, no food eaten: head added, tail removed
MoveStep(k) ==
  LET d  == NextDirection(k, direction)
      nh == calculate_new_head(snake, d)
  IN /\ st = "Playing"
     /\ k # ord_q
     /\ ~Collision(nh, snake, h, w)
     /\ nh # food
     /\ next_key' = k
     /\ direction' = d
     /\ new_head' = nh
     /\ snake' = Pop(Insert(nh, snake))
     /\ win' = addch(addch(win, snake[Len(snake)], Blank), nh, ACS_CKBOARD)
     /\ ticks' = ticks + 1
     /\ UNCHANGED <<idle, sh, sw, st, food, score, key, final_score>>

\* the step above, within the ticks the model explores
Move(k) == ticks < MaxTicks /\ ~idle /\ MoveStep(k)

\* game_over returning False on any key that is not r
Wait_Returns(k) ==
  /\ st = "GameOver"
  /\ k \notin {ord_r, ord_q}
  /\ key' = k
  /\ st' = "Terminated"
  /\ UNCHANGED <<idle, sh, sw, snake, direction, food, score, next_key,
                 new_head, final_score, win, ticks>>

\* game_over lines 206-211, a key that is neither r nor q: keep waiting
Wait(k) ==
  /\ st = "GameOver"
  /\ k \notin {ord_r, ord_q}
  /\ key' = k
  /\ UNCHANGED <<idle, sh, sw, st, snake, direction, food, score, next_key,
                 new_head, final_score, win, ticks>>

\* a restart that leaves out `score = 0`
Restart_KeepsScore ==
  /\ st = "GameOver"
  /\ key' = ord_r
  /\ snake' = InitialSnake
  /\ direction' = KEY_RIGHT
  /\ food' \in create_food(h, w, InitialSnake)
  /\ st' = "Playing"
  /\ next_key' = NoKey
  /\ new_head' = None
  /\ final_score' = NoScore
  /\ win' = addch(ClearWin, food', ACS_DIAMOND)
  /\ ticks' = 0
  /\ UNCHANGED <<idle, sh, sw, score>>

\* a restart that leaves out `direction = KEY_RIGHT`
Restart_KeepsDirection ==
  /\ st = "GameOver"
  /\ key' = ord_r
  /\ snake' = InitialSnake
  /\ food' \in create_food(h, w, InitialSnake)
  /\ score' = 0
  /\ st' = "Playing"
  /\ next_key' = NoKey
  /\ new_head' = None
  /\ final_score' = NoScore
  /\ win' = addch(ClearWin, food', ACS_DIAMOND)
  /\ ticks' = 0
  /\ UNCHANGED <<idle, sh, sw, direction>>

\* game_over returns True on r; lines 95-105 reset the game.  next_key and
\* new_head are assigned again before the loop reads them, final_score is
\* the parameter of the call that has returned: the model clears them.
Restart ==
  /\ st = "GameOver"
  /\ key' = ord_r
  /\ snake' = InitialSnake
  /\ direction' = KEY_RIGHT
  /\ food' \in create_food(h, w, InitialSnake)
  /\ score' = 0
  /\ st' = "Playing"
  /\ next_key' = NoKey
  /\ new_head' = None
  /\ final_score' = NoScore
  /\ win' = addch(ClearWin, food', ACS_DIAMOND)
  /\ ticks' = 0
  /\ UNCHANGED <<idle, sh, sw>>

\* q in game_over that also zeroes the score
QuitGameOver_Resets ==
  /\ st = "GameOver"
  /\ key' = ord_q
  /\ st' = "Terminated"
  /\ score' = 0
  /\ UNCHANGED <<idle, sh, sw, snake, direction, food, next_key, new_head,
                 final_score, win, ticks>>

\* game_over returns False on q; line 107 breaks the loop
QuitGameOver ==
  /\ st = "GameOver"
  /\ key' = ord_q
  /\ st' = "Terminated"
  /\ UNCHANGED <<idle, sh, sw, snake, direction, food, score, next_key, new_head,
                 final_score, win, ticks>>

Next ==
  \/ TooSmall
  \/ Setup
  \/ StartGame
  \/ Quit
  \/ \E k \in Keys : Collide(k)
  \/ \E k \in Keys : Eat(k)
  \/ \E k \in Keys : Move(k)
  \/ \E k \in Keys : Wait(k)
  \/ Restart
  \/ QuitGameOver

Spec == Init /\ [][Next]_vars

(* ---- play on a nearly full board --------------------------------------- *)

\* The i-th cell of the path that runs through the whole interior of the
\* smallest board row by row, left to right in odd rows and right to left
\* in even rows.
FullPath(i) ==
  LET cols == (MinCols - 2) - 2
      r == (i - 1) \div cols + 1
      o == (i - 1) % cols
  IN <<r, IF r % 2 = 1 THEN 1 + o ELSE cols - o>>

InteriorSize == ((MinRows - 2) - 2) * ((MinCols - 2) - 2)

\* the snake lying on the first n cells of the path, head on the n-th
SnakeOnPath(n) == [j \in 1..n |-> FullPath(n + 1 - j)]

\* A tick boundary of Playing late in a long session: the snake has
\* eaten along the path and leaves one or two cells of the interior free,
\* the food is on one of them.  Play reaches it when every new food falls
\* on the cell ahead of the head (lines 113-117 keep the tail then).
NearlyFull ==
  \E n \in (InteriorSize - 2) .. (InteriorSize - 1) :
    /\ sh = MinRows
    /\ sw = MinCols
    /\ st = "Playing"
    /\ snake = SnakeOnPath(n)
    /\ direction = IF FullPath(n)[2] < FullPath(n - 1)[2] THEN KEY_LEFT
                   ELSE KEY_RIGHT
    /\ food \in {FullPath(i) : i \in (n + 1) .. InteriorSize}
    /\ score = n - 3
    /\ next_key = NoKey
    /\ new_head = FullPath(n)
    /\ key = NoKey
    /\ final_score = NoScore
    /\ win = {<<FullPath(i), ACS_CKBOARD>> : i \in 1..n}
               \cup {<<food, ACS_DIAMOND>>}
    /\ idle = FALSE
    /\ ticks = 0

FullInit == Init \/ NearlyFull

FullSpec == FullInit /\ [][Next]_vars

(* ---- play with a keyboard that falls silent ---------------------------- *)

\* the keys win.getch() still delivers once no arrow key and no q comes
IdleKeys == {NoKey, ord_r}

\* from now on the keyboard sends no arrow key and no q
GoIdle ==
  /\ st = "Playing"
  /\ ~idle
  /\ idle' = TRUE
  /\ UNCHANGED <<sh, sw, st, snake, direction, food, score, next_key,
                 new_head, key, final_score, win, ticks>>

\* a tick of the play loop with such a key; these ticks are not counted
\* against MaxTicks, they end by themselves
IdleTick(k) ==
  /\ idle
  /\ k \in IdleKeys
  /\ (CollideStep(k) \/ EatStep(k) \/ MoveStep(k))

IdleTicks == \E k \in IdleKeys : IdleTick(k)

LiveNext ==
  \/ Next
  \/ GoIdle
  \/ IdleTicks

\* win.getch() returns after at most 100 ms (line 34), so the play loop
\* keeps taking ticks for as long as it is in Playing
LiveSpec == FullInit /\ [][LiveNext]_vars /\ WF_vars(IdleTicks)

(* ---- vocabulary of the properties ------------------------------------- *)

Cells(s) == {s[i] : i \in 1..Len(s)}

NoDuplicates(s) == \A i, j \in 1..Len(s) : s[i] = s[j] => i = j

InInterior(c) == /\ 1 <= c[1] /\ c[1] <= (sh - 2) - 2
                 /\ 1 <= c[2] /\ c[2] <= (sw - 2) - 2

OnBorder(c) == \/ c[1] = 0 \/ c[1] = (sh - 2) - 1
               \/ c[2] = 0 \/ c[2] = (sw - 2) - 1

Opposite(d) == CASE d = KEY_UP -> KEY_DOWN
                 [] d = KEY_DOWN -> KEY_UP
                 [] d = KEY_LEFT -> KEY_RIGHT
                 [] d = KEY_RIGHT -> KEY_LEFT
                 [] OTHER -> NoKey

UnitVector(d) == CASE d = KEY_UP -> <<-1, 0>>
                   [] d = KEY_DOWN -> <<1, 0>>
                   [] d = KEY_LEFT -> <<0, -1>>
                   [] d = KEY_RIGHT -> <<0, 1>>
                   [] OTHER -> <<0, 0>>

\* in a step of Playing: the head plus the unit vector of the direction
\* the step ends with
Target == <<snake[1][1] + UnitVector(direction')[1],
            snake[1][2] + UnitVector(direction')[2]>>

\* a step of Playing that read a key other than q
PlayTick == st = "Playing" /\ next_key' # ord_q

SpawnSnake == << <<(sh - 2) \div 2, (sw - 2) \div 4>>,
                 <<(sh - 2) \div 2, (sw - 2) \div 4 - 1>>,
                 <<(sh - 2) \div 2, (sw - 2) \div 4 - 2>> >>

(* ---- properties ------------------------------------------------------- *)

\* C1: in every state of Playing the snake holds no cell twice.
C1_NoDuplicateCells == st = "Playing" => NoDuplicates(snake)

\* a snake of five cells that has eaten twice and turned back next to
\* its own body
C1_Witness ==
  /\ st = "Playing"
  /\ Len(snake) = 5
  /\ \E i \in 3..5 : /\ snake[i][1] - snake[1][1] \in {-1, 0, 1}
                     /\ snake[i][2] - snake[1][2] \in {-1, 0, 1}

\* C2: at every tick boundary of Playing (after setup, after every
\* non-colliding tick, after every restart) the food is in the interior
\* and on no cell of the snake.
C2_FoodInInteriorOffSnake ==
  st \in {"Instructions", "Playing"} =>
    InInterior(food) /\ food \notin Cells(snake)

\* after a restart, food has been eaten and placed again
C2_Witness == st = "Playing" /\ key = ord_r /\ score >= 1

\* C3: a non-colliding tick whose new head is not the food gives the new
\* head followed by the old snake without its last cell; length, score
\* and food are unchanged.
C3_MoveKeepsLength ==
  [][(PlayTick /\ st' = "Playing" /\ Target # food) =>
       /\ snake' = <<Target>> \o SubSeq(snake, 1, Len(snake) - 1)
       /\ Len(snake') = Len(snake)
       /\ score' = score
       /\ food' = food]_vars

\* a grown snake has moved on without eating
C3_Witness ==
  /\ st = "Playing"
  /\ Len(snake) = 4
  /\ ticks > score
  /\ new_head = snake[1]

\* C4: a non-colliding tick whose new head is the food gives the new head
\* followed by the whole old snake, score + 1, and a new food that is not
\* in the grown snake.
C4_EatGrows ==
  [][(PlayTick /\ st' = "Playing" /\ Target = food) =>
       /\ snake' = <<Target>> \o snake
       /\ Len(snake') = Len(snake) + 1
       /\ score' = score + 1
       /\ food' \notin Cells(snake')
       /\ food' # Target]_vars

\* the first tick of a session ate the food
C4_Witness ==
  /\ st = "Playing"
  /\ ticks = 1
  /\ score = 1
  /\ Len(snake) = 4

\* C5: in a tick of Playing the direction never becomes the opposite of
\* what it was; a key asking for the opposite leaves it unchanged.
C5_NoReversal ==
  [][st = "Playing" =>
       /\ direction' # Opposite(direction)
       /\ (next_key' = Opposite(direction) => direction' = direction)]_vars

\* the snake was heading left, the right arrow was read, it still heads left
C5_Witness ==
  /\ st = "Playing"
  /\ next_key = KEY_RIGHT
  /\ direction = KEY_LEFT
  /\ new_head = snake[1]
  /\ snake[1][2] = snake[2][2] - 1

\* C6: a tick of Playing whose new head is on the outer border goes to
\* GameOver; snake, food and score are unchanged and the score shown is
\* the score held before the tick.
C6_WallCollision ==
  [][(PlayTick /\ OnBorder(Target)) =>
       /\ st' = "GameOver"
       /\ snake' = snake
       /\ food' = food
       /\ score' = score
       /\ final_score' = score]_vars

\* game over on the border after food was eaten
C6_Witness ==
  /\ st = "GameOver"
  /\ OnBorder(new_head)
  /\ final_score = 1
  /\ score = 1

\* C7: a tick of Playing whose new head is a cell of the snake as it is
\* before the move (its tail cell included) goes to GameOver, and a tick
\* whose new head is an interior cell outside the snake does not.
C7_SelfCollision ==
  [][PlayTick =>
       /\ (Target \in Cells(snake) => st' = "GameOver")
       /\ ((InInterior(Target) /\ Target \notin Cells(snake))
             => st' = "Playing")]_vars

\* game over on the cell the tail would have left
C7_Witness ==
  /\ st = "GameOver"
  /\ Len(snake) = 4
  /\ new_head = snake[Len(snake)]
  /\ InInterior(new_head)

\* C8: r in GameOver gives Playing with score 0, the three-cell snake at
\* the spawn position, direction Right and a food in the interior that
\* is not on the snake.
C8_Restart ==
  [][(st = "GameOver" /\ key' = ord_r) =>
       /\ st' = "Playing"
       /\ score' = 0
       /\ snake' = SpawnSnake
       /\ direction' = KEY_RIGHT
       /\ InInterior(food')
       /\ food' \notin Cells(snake')]_vars

\* just after r: a new session, before its first tick
C8_Witness ==
  /\ st = "Playing"
  /\ key = ord_r
  /\ ticks = 0
  /\ score = 0
  /\ Len(snake) = 3
  /\ direction = KEY_RIGHT

\* C9: the controller only takes the transitions Instructions -> Playing,
\* Playing -> Playing (no collision), Playing -> GameOver (collision
\* only), Playing -> Terminated (q only), GameOver -> Playing (r only),
\* GameOver -> Terminated (q only); another key keeps GameOver, and
\* Terminated is never left.
C9_Transitions ==
  [][/\ st = "Instructions" => st' = "Playing"
     /\ st = "Playing" =>
          /\ st' \in {"Playing", "GameOver", "Terminated"}
          /\ st' = "Playing" =>
               ~OnBorder(Target) /\ Target \notin Cells(snake)
          /\ st' = "GameOver" =>
               OnBorder(Target) \/ Target \in Cells(snake)
          /\ st' = "Terminated" <=> next_key' = ord_q
     /\ st = "GameOver" =>
          /\ st' \in {"Playing", "GameOver", "Terminated"}
          /\ st' = "Playing" <=> key' = ord_r
          /\ st' = "Terminated" <=> key' = ord_q
     /\ st = "Terminated" => FALSE]_vars

\* a key that is neither r nor q was read in GameOver, which goes on
C9_Witness ==
  /\ st = "GameOver"
  /\ key \notin {ord_r, ord_q, NoKey}

\* C10: q read on a tick of Playing ends the loop on that tick: no new
\* head, snake, direction, food and score as before, no game over.
C10_QuitInPlay ==
  [][(st = "Playing" /\ next_key' = ord_q) =>
       /\ st' = "Terminated"
       /\ new_head' = new_head
       /\ snake' = snake
       /\ direction' = direction
       /\ food' = food
       /\ score' = score
       /\ final_score' = final_score]_vars

\* q was read after the snake had moved and eaten
C10_Witness ==
  /\ st = "Terminated"
  /\ next_key = ord_q
  /\ key = NoKey
  /\ score >= 1
  /\ ticks >= 3

\* C11: q in GameOver goes to Terminated and changes neither the snake,
\* the direction, the food nor the score.
C11_QuitInGameOver ==
  [][(st = "GameOver" /\ key' = ord_q) =>
       /\ st' = "Terminated"
       /\ snake' = snake
       /\ direction' = direction
       /\ food' = food
       /\ score' = score]_vars

\* q was read on the game-over screen of a session that had scored
C11_Witness ==
  /\ st = "Terminated"
  /\ key = ord_q
  /\ final_score >= 1
  /\ score = final_score

\* the cell one step from the head in the direction held before the step
Ahead == <<snake[1][1] + UnitVector(direction)[1],
           snake[1][2] + UnitVector(direction)[2]>>

\* a step of Playing that read no key, or r (which the play loop has no
\* case for)
IdleKeyTick == st = "Playing" /\ next_key' \in {NoKey, ord_r}

\* C13 as stated: a tick of Playing with no key, or with a key that is
\* neither an arrow nor q, leaves the direction unchanged and the snake
\* advances one cell in that direction on that tick.
C13_IdleTickAdvances ==
  [][IdleKeyTick => /\ direction' = direction
                 /\ snake'[1] = Ahead]_vars

\* C13 as amended: such a tick leaves the direction unchanged and takes
\* the cell one step ahead in that direction as the new head; the snake
\* advances onto it unless that cell is on the border or on the snake, in
\* which case the tick goes to GameOver and the snake stays where it is.
C13_IdleTickAdvancesUnlessCollision ==
  [][IdleKeyTick =>
       /\ direction' = direction
       /\ new_head' = Ahead
       /\ IF OnBorder(Ahead) \/ Ahead \in Cells(snake)
          THEN st' = "GameOver" /\ snake' = snake
          ELSE st' = "Playing" /\ snake'[1] = Ahead
               /\ snake'[2] = snake[1]]_vars

\* r was read while the snake was heading up, and it moved up
C13_Witness ==
  /\ st = "Playing"
  /\ next_key = ord_r
  /\ direction = KEY_UP
  /\ snake[1] = <<snake[2][1] - 1, snake[2][2]>>
  /\ snake[2] = <<snake[3][1] - 1, snake[3][2]>>

TerminalTooSmall == sh < 10 \/ sw < 30

\* C15: with fewer than 10 rows or fewer than 30 columns the program
\* goes from startup to its too-small exit and stays there, with no
\* instructions, snake, food or play; otherwise startup always leads to
\* the instructions.
C15_Startup ==
  /\ [](TerminalTooSmall =>
          /\ st \in {"Start", "TooSmall"}
          /\ snake = None
          /\ food = None
          /\ win = {})
  /\ [][st = "Start" =>
          IF TerminalTooSmall THEN st' = "TooSmall"
          ELSE st' = "Instructions" /\ Len(snake') = 3]_vars
  /\ [][st # "TooSmall"]_vars

\* enough rows but one column short: the program has exited
C15_Witness ==
  /\ st = "TooSmall"
  /\ sh >= 10
  /\ sw = 29

GlyphCells(g) == {p[1] : p \in {q \in win : q[2] = g}}

\* C16: after every completed non-colliding tick of Playing the cells of
\* the play window showing the snake glyph are exactly the cells of the
\* snake, and the only cell showing the food glyph is the food cell.
C16_WindowShowsSnake ==
  (st = "Playing" /\ ticks >= 1) =>
     /\ GlyphCells("ckboard") = Cells(snake)
     /\ GlyphCells("diamond") = {food}

\* C17: at every tick boundary of Playing score = len(snake) - 3, so the
\* score is never negative, and it never decreases within a session.
C17_ScoreIsGrowth ==
  /\ [](st = "Playing" => score = Len(snake) - 3 /\ score >= 0)
  /\ [][(st = "Playing" /\ st' = "Playing") => score' >= score]_vars

\* a session that has eaten twice
C17_Witness ==
  /\ st = "Playing"
  /\ score = 2
  /\ Len(snake) = 5
  /\ ticks >= 3

Directions == {KEY_UP, KEY_DOWN, KEY_LEFT, KEY_RIGHT}

\* C18: at every tick boundary of Playing every cell of the snake is
\* strictly inside the interior, so no move is both on the border and on
\* a cell of the snake.
C18_SnakeInInterior ==
  st = "Playing" =>
    /\ \A i \in 1..Len(snake) : InInterior(snake[i])
    /\ \A d \in Directions :
         LET c == <<snake[1][1] + UnitVector(d)[1],
                    snake[1][2] + UnitVector(d)[2]>>
         IN ~(OnBorder(c) /\ c \in Cells(snake))

\* the head is in the last interior row, next to the border
C18_Witness ==
  /\ st = "Playing"
  /\ snake[1][1] = (sh - 2) - 2
  /\ direction = KEY_DOWN

\* C19: at every tick boundary of Playing head minus second cell is the
\* unit vector of the stored direction, so the new head of a tick is
\* never the cell behind the head.
C19_DirectionIsLastStep ==
  /\ [](st = "Playing" =>
          /\ snake[1][1] - snake[2][1] = UnitVector(direction)[1]
          /\ snake[1][2] - snake[2][2] = UnitVector(direction)[2])
  /\ [][PlayTick => new_head' # snake[2]]_vars

\* the opposite arrow was read and the snake went on upwards
C19_Witness ==
  /\ st = "Playing"
  /\ direction = KEY_UP
  /\ next_key = KEY_DOWN
  /\ snake[1][1] = snake[2][1] - 1

\* C12: whenever food must be placed in play, create_food returns a cell,
\* also when the snake fills the whole interior or nearly all of it: the
\* controller is never left inside the sampling loop.
C12_FoodPlacementReturns == st # "Placing"

\* C20: from any state of Playing, once no arrow key and no q is received
\* any more and ticks keep occurring, the game reaches GameOver.
C20_StraightRunEnds == [](st = "Playing" /\ idle => <>(st = "GameOver"))

====
